---- MODULE Spec2Model ----
(***************************************************************************)
(* State-machine model of websocket_sniper.py: a main thread (main) that   *)
(* validates the environment, loads the snipe list, starts the feed thread *)
(* and then heartbeats; a feed thread (start_websocket.run_forever) that   *)
(* keeps a WebSocketApp connected and runs the callbacks on_open,          *)
(* on_message, on_close synchronously; and the order gateway               *)
(* (place_market_order).                                                   *)
(***************************************************************************)
EXTENDS Integers, Sequences, FiniteSets, TLC

(* ------------------------------ bounds --------------------------------- *)
\* frames the transport may hold unread while a callback is running
MaxInbox == 1
\* activation records of on_message that may exist at once
MaxHandlers == 2
\* cap on the per-symbol count of place_market_order invocations
MaxCalls == 2
\* cap on heartbeat_count
MaxHeartbeat == 1

(* ------------------------------ domains -------------------------------- *)
Symbols == {"NSGUSDT", "ABCUSDT"}

\* values os.environ.get can give: unset (None), empty string, a real value
EnvValues == {"<unset>", "", "k"}

EmptyMap == [s \in {} |-> 0]

\* default_config of load_snipe_list; amounts are in whole USDT
default_config == [s \in {"NSGUSDT"} |-> 2]

\* content of snipe_config.json
FileMissing == [kind |-> "missing", map |-> EmptyMap]
FileCorrupt == [kind |-> "corrupt", map |-> EmptyMap]
FileJson(m) == [kind |-> "json", map |-> m]

\* the files the process may find at startup
InitialFiles ==
    { FileMissing, FileCorrupt,
      FileJson([s \in Symbols |-> IF s = "NSGUSDT" THEN 2 ELSE 5]) }

\* outcome of open(..., 'w') + json.dump: written, open failed (file
\* untouched), or failed after the truncating open (file left unreadable)
WriteOutcomes == {"ok", "openfail", "partial"}

\* the 'c' field of a ticker payload
PriceTokens == {"<missing>", "0.0", "-1.5", "abc", "0.05"}

\* inbound frames
NoMsg == [kind |-> "none", s |-> "", c |-> ""]
Messages ==
    { [kind |-> k, s |-> "", c |-> ""] : k \in {"notjson", "other", "nodata", "nosym"} }
    \cup { [kind |-> "ticker", s |-> s, c |-> c] : s \in Symbols, c \in PriceTokens }

\* what the exchange answers to the order request
Responses == {"orderId", "errormsg", "nondict", "notjson", "network", "timeout"}

Slots == 1..MaxHandlers

VARIABLES
    API_KEY, SECRET_KEY,   \* module globals read from the environment
    SNIPE_LIST,            \* symbol -> amount
    active_orders,         \* symbol -> "executing" | "completed" | "failed"; "none" = no key
    ws_connected,
    file,                  \* snipe_config.json
    mainPc,                \* position of main()
    heartbeat_count,
    feedPc,                \* position of the feed thread
    inbox,                 \* frames received by the transport, not yet dispatched
    handlers,              \* activation records of on_message
    subscription,          \* SUBSCRIPTION frames sent on the current connection (their params)
    calls,                 \* history: place_market_order invocations per symbol
    watch0,                \* history: keys of SNIPE_LIST right after load_snipe_list
    waited                 \* history: the backoff sleep ran since ws.run_forever last ended

vars == << API_KEY, SECRET_KEY, SNIPE_LIST, active_orders, ws_connected, file,
           mainPc, heartbeat_count, feedPc, inbox, handlers, subscription,
           calls, watch0, waited >>

(* ------------------------------ helpers -------------------------------- *)
\* Python truthiness of an environment value (None and '' are falsy)
Truthy(v) == v \notin {"<unset>", ""}

\* mutation: the whole list is cleared
Del_All(d, k) == [x \in {} |-> 0]

\* del d[k]
Del(d, k) == [x \in (DOMAIN d) \ {k} |-> d[x]]

\* str.lower() on the symbols of the model
Lower(s) == CASE s = "NSGUSDT" -> "nsgusdt"
              [] s = "ABCUSDT" -> "abcusdt"
              [] OTHER -> s

IdleHandler == [pc |-> "idle", msg |-> NoMsg, late |-> FALSE, amount |-> 0,
                resp |-> "none", posts |-> 0, ok |-> FALSE, saved |-> "none"]

AllIdle == \A t \in Slots : handlers[t].pc = "idle"

\* the tokens that denote a strictly positive number
PositivePrice(tok) == tok \in {"0.05"}

\* float(x) on the price tokens: err = ValueError, val in hundredths
PyFloat(tok) ==
    CASE tok = "<missing>" -> [err |-> FALSE, val |-> 0]   \* .get('c', 0) -> float(0)
      [] tok = "0.0"       -> [err |-> FALSE, val |-> 0]
      [] tok = "-1.5"      -> [err |-> FALSE, val |-> -150]
      [] tok = "0.05"      -> [err |-> FALSE, val |-> 5]
      [] OTHER             -> [err |-> TRUE,  val |-> 0]


\* json.dump(mapping) into snipe_config.json with write outcome w, on file f
WriteFile(w, mapping, f) ==
    CASE w = "ok"       -> FileJson(mapping)
      [] w = "openfail" -> f
      [] OTHER          -> FileCorrupt

\* mutation: the save never reaches the file
save_snipe_list_NoWrite(w, list, f) == f

\* save_snipe_list: dumps SNIPE_LIST; every exception is caught and logged
save_snipe_list(w, list, f) == WriteFile(w, list, f)

\* mutation: any body that parses to a dict counts as success
place_market_order_AnyDict(resp) == resp \in {"orderId", "errormsg"}

\* place_market_order: True iff the parsed response has an 'orderId' key;
\* error payloads, non-dict bodies, unparsable bodies, network errors and
\* timeouts all end in "return False" (lines 87-93)
place_market_order(resp) == resp = "orderId"

\* mutation: a network error or timeout is tried once more
RequestsSent_Retry(resp) == IF resp \in {"network", "timeout"} THEN 2 ELSE 1

\* place_market_order line 81: the one requests.post of an invocation; there
\* is no loop around it, whatever the answer
RequestsSent(resp) == IF resp \in Responses THEN 1 ELSE 0

\* line 100-105 of on_message: "exception" (caught at line 132), "skip"
\* (not a 24hrTicker stream) or "ticker"
ParseOutcome(m) ==
    CASE m.kind = "notjson" -> "exception"
      [] m.kind = "other"   -> "skip"
      [] m.kind = "nodata"  -> "exception"
      [] m.kind = "nosym"   -> "exception"
      [] OTHER              -> "ticker"

\* mutation: the test forgets the watch list
Eligible_NoListCheck(symbol, list, orders) == orders[symbol] = "none"

\* mutation: one order in progress or done blocks every symbol
Eligible_GlobalClaim(symbol, list, orders) ==
    symbol \in DOMAIN list /\ \A x \in DOMAIN orders : orders[x] = "none"

\* mutation: the test forgets the claim recorded in active_orders
Eligible_NoClaimCheck(symbol, list, orders) == symbol \in DOMAIN list

\* line 108: symbol in SNIPE_LIST and symbol not in active_orders
Eligible(symbol, list, orders) ==
    symbol \in DOMAIN list /\ orders[symbol] = "none"

\* mutation: the price test is missing
TradingStarted_NoPriceTest(tok) == TRUE

\* mutation: >= in place of >
TradingStarted_NonNegative(tok) == ~PyFloat(tok).err /\ PyFloat(tok).val >= 0

\* line 110: float(stream_data.get('c', 0)) > 0; a ValueError leaves the
\* handler through the except clause, so it counts as "not started"
TradingStarted(tok) == ~PyFloat(tok).err /\ PyFloat(tok).val > 0

\* mutation: the failure branch writes the mark of the success branch
OrderOutcome_FailedAsCompleted(success, symbol, list, orders) ==
    IF success
    THEN [orders |-> [orders EXCEPT ![symbol] = "completed"],
          list   |-> Del(list, symbol),
          save   |-> symbol \in DOMAIN list]
    ELSE [orders |-> [orders EXCEPT ![symbol] = "completed"],
          list   |-> list,
          save   |-> FALSE]

\* mutation: a failed order also removes the symbol from SNIPE_LIST
OrderOutcome_RemoveOnFailure(success, symbol, list, orders) ==
    IF success
    THEN [orders |-> [orders EXCEPT ![symbol] = "completed"],
          list   |-> Del(list, symbol),
          save   |-> symbol \in DOMAIN list]
    ELSE [orders |-> [orders EXCEPT ![symbol] = "failed"],
          list   |-> Del(list, symbol),
          save   |-> FALSE]

\* mutation: a successful order leaves the symbol in SNIPE_LIST
OrderOutcome_KeepOnSuccess(success, symbol, list, orders) ==
    IF success
    THEN [orders |-> [orders EXCEPT ![symbol] = "completed"],
          list   |-> list,
          save   |-> symbol \in DOMAIN list]
    ELSE [orders |-> [orders EXCEPT ![symbol] = "failed"],
          list   |-> list,
          save   |-> FALSE]

\* mutation: a failed order drops the mark, so the symbol is Watching again
OrderOutcome_RetryOnFailure(success, symbol, list, orders) ==
    IF success
    THEN [orders |-> [orders EXCEPT ![symbol] = "completed"],
          list   |-> Del(list, symbol),
          save   |-> symbol \in DOMAIN list]
    ELSE [orders |-> [orders EXCEPT ![symbol] = "none"],
          list   |-> list,
          save   |-> FALSE]

\* lines 122-130: the state after the gateway answered for symbol
OrderOutcome(success, symbol, list, orders) ==
    IF success
    THEN [orders |-> [orders EXCEPT ![symbol] = "completed"],
          list   |-> Del(list, symbol),
          save   |-> symbol \in DOMAIN list]   \* a KeyError at line 125 skips the save
    ELSE [orders |-> [orders EXCEPT ![symbol] = "failed"],
          list   |-> list,
          save   |-> FALSE]

\* mutation: the mark is not written before the call
MarkExecuting_Forgotten(orders, symbol) == orders

\* line 116: active_orders[symbol] = 'executing'
MarkExecuting(orders, symbol) == [orders EXCEPT ![symbol] = "executing"]

\* mutation: a failed save puts the entry back
ListAfterSave_RollBack(w, before, after) == IF w = "ok" THEN after ELSE before

\* lines 125-126 with 50-54: the entry is deleted before the save, and the
\* save catches its own errors, so the in-memory list is the same whatever
\* the write outcome
ListAfterSave(w, before, after) == after

\* mutation: "and" in place of "or"
KeysMissing_Both(a, s) == ~Truthy(a) /\ ~Truthy(s)

\* line 202: if not API_KEY or not SECRET_KEY
KeysMissing(a, s) == ~Truthy(a) \/ ~Truthy(s)

\* mutation: the reconnect loop runs on the main thread, which gets to its
\* own loop only between callbacks of a live connection
HeartbeatEnabled_SameThread(pc, feed, h) ==
    pc = "beat" /\ feed = "open" /\ \A t \in Slots : h[t].pc = "idle"

\* lines 190-191 and 227-228: the reconnect loop has a daemon thread of its
\* own, so the heartbeat loop waits for nothing but its time.sleep(60)
HeartbeatEnabled(pc, feed, h) == pc = "beat"

\* mutation: no except clause, the exception ends the thread
AfterRunForever_NoExcept(raised) == IF raised THEN "dead" ELSE "loop"

\* lines 182-188: where the reconnect loop goes when ws.run_forever ends
AfterRunForever(raised) == IF raised THEN "sleep" ELSE "loop"

\* mutation: every frame is handled on a thread of its own
CanDispatch_ThreadPerFrame(h) == \E t \in Slots : h[t].pc = "idle"

\* ws.run_forever delivers frames from the one feed thread and runs each
\* callback to completion before reading the next frame
CanDispatch(h) == \A t \in Slots : h[t].pc = "idle"

\* mutation: the symbol is not lowercased
Streams_NoLower(list) == { << s, "@24hrTicker" >> : s \in DOMAIN list }

\* line 150: the stream names on_open subscribes to, f"{symbol.lower()}@24hrTicker",
\* each kept as the pair of its two parts
Streams(list) == { << Lower(s), "@24hrTicker" >> : s \in DOMAIN list }

(* ------------------------------ initial state -------------------------- *)
Init ==
    /\ API_KEY \in EnvValues
    /\ SECRET_KEY \in EnvValues
    /\ SNIPE_LIST = EmptyMap
    /\ active_orders = [s \in Symbols |-> "none"]
    /\ ws_connected = FALSE
    /\ file \in InitialFiles
    /\ mainPc = "check"
    /\ heartbeat_count = 0
    /\ feedPc = "none"
    /\ inbox = << >>
    /\ handlers = [t \in Slots |-> IdleHandler]
    /\ subscription = << >>
    /\ calls = [s \in Symbols |-> 0]
    /\ watch0 = {}
    /\ waited = TRUE

(* ------------------------------ main thread ---------------------------- *)
\* main, lines 202-208
CheckKeys ==
    /\ mainPc = "check"
    /\ mainPc' = IF KeysMissing(API_KEY, SECRET_KEY) THEN "exit" ELSE "load"
    /\ UNCHANGED << API_KEY, SECRET_KEY, SNIPE_LIST, active_orders, ws_connected,
                    file, heartbeat_count, feedPc, inbox, handlers, subscription,
                    calls, watch0, waited >>

\* main line 211 -> load_snipe_list, lines 29-46
LoadSnipeList ==
    /\ mainPc = "load"
    /\ \E w \in WriteOutcomes :
         /\ file.kind # "missing" => w = "ok"
         /\ IF file.kind = "json"
            THEN SNIPE_LIST' = file.map /\ file' = file
            ELSE IF file.kind = "corrupt"
            THEN SNIPE_LIST' = SNIPE_LIST /\ file' = file
            ELSE /\ file' = WriteFile(w, default_config, file)
                 /\ SNIPE_LIST' = IF w = "ok" THEN default_config ELSE SNIPE_LIST
    /\ watch0' = DOMAIN SNIPE_LIST'
    /\ mainPc' = "start"
    /\ UNCHANGED << API_KEY, SECRET_KEY, active_orders, ws_connected,
                    heartbeat_count, feedPc, inbox, handlers, subscription,
                    calls, waited >>

\* main line 223 -> start_websocket, lines 167-193: the feed thread starts
StartWebsocket ==
    /\ mainPc = "start"
    /\ mainPc' = "beat"
    /\ feedPc' = "loop"
    /\ UNCHANGED << API_KEY, SECRET_KEY, SNIPE_LIST, active_orders, ws_connected,
                    file, heartbeat_count, inbox, handlers, subscription,
                    calls, watch0, waited >>

\* main lines 227-230
Heartbeat ==
    /\ HeartbeatEnabled(mainPc, feedPc, handlers)
    /\ heartbeat_count < MaxHeartbeat
    /\ heartbeat_count' = heartbeat_count + 1
    /\ UNCHANGED << API_KEY, SECRET_KEY, SNIPE_LIST, active_orders, ws_connected,
                    file, mainPc, feedPc, inbox, handlers, subscription,
                    calls, watch0, waited >>


(* ------------------------------ feed thread ---------------------------- *)
\* run_forever lines 182-185: a connection attempt starts
LoopTop ==
    /\ feedPc = "loop"
    /\ feedPc' = "run"
    /\ waited' = TRUE
    /\ UNCHANGED << API_KEY, SECRET_KEY, SNIPE_LIST, active_orders, ws_connected,
                    file, mainPc, heartbeat_count, inbox, handlers, subscription,
                    calls, watch0 >>

\* on_open, lines 144-165
OnOpen ==
    /\ feedPc = "run"
    /\ feedPc' = "open"
    /\ ws_connected' = TRUE
    /\ subscription' = IF Streams(SNIPE_LIST) # {} THEN << Streams(SNIPE_LIST) >> ELSE << >>
    /\ UNCHANGED << API_KEY, SECRET_KEY, SNIPE_LIST, active_orders, file, mainPc,
                    heartbeat_count, inbox, handlers, calls, watch0, waited >>

\* ws.run_forever ends (line 185): the connection attempt failed or the
\* connection closed; on_close (lines 138-142) may or may not have run, and
\* the call either returns or raises
RunForeverEnds ==
    /\ feedPc \in {"run", "open"}
    /\ AllIdle
    /\ \E closeCalled \in BOOLEAN, raised \in BOOLEAN :
         /\ ws_connected' = IF closeCalled THEN FALSE ELSE ws_connected
         /\ feedPc' = AfterRunForever(raised)
    /\ inbox' = << >>
    /\ subscription' = << >>
    /\ waited' = FALSE
    /\ UNCHANGED << API_KEY, SECRET_KEY, SNIPE_LIST, active_orders, file, mainPc,
                    heartbeat_count, handlers, calls, watch0 >>

\* run_forever line 188: time.sleep(10) is over
Backoff ==
    /\ feedPc = "sleep"
    /\ feedPc' = "loop"
    /\ waited' = TRUE
    /\ UNCHANGED << API_KEY, SECRET_KEY, SNIPE_LIST, active_orders, ws_connected,
                    file, mainPc, heartbeat_count, inbox, handlers, subscription,
                    calls, watch0 >>

\* a frame from the exchange reaches the transport; "late" records that it
\* came while a handler for the same symbol had passed its eligibility check
\* and its order call had not returned
Arrive ==
    /\ feedPc = "open"
    /\ Len(inbox) < MaxInbox
    /\ \E m \in Messages :
         inbox' = Append(inbox,
                    [msg  |-> m,
                     late |-> /\ m.kind = "ticker"
                              /\ \E t \in Slots :
                                   /\ handlers[t].pc \in {"mark", "call", "wait"}
                                   /\ handlers[t].msg.s = m.s])
    /\ UNCHANGED << API_KEY, SECRET_KEY, SNIPE_LIST, active_orders, ws_connected,
                    file, mainPc, heartbeat_count, feedPc, handlers, subscription,
                    calls, watch0, waited >>

\* the activation record the next on_message call uses
FreeSlot == CHOOSE t \in Slots :
               /\ handlers[t].pc = "idle"
               /\ \A u \in Slots : handlers[u].pc = "idle" => t <= u

\* on_message lines 95-113: json.loads, the stream/data/symbol lookups, the
\* eligibility test and the price test; none of them writes anything
Dispatch ==
    /\ feedPc = "open"
    /\ inbox # << >>
    /\ CanDispatch(handlers)
    /\ \E t \in Slots : handlers[t].pc = "idle"
    /\ handlers' = [handlers EXCEPT ![FreeSlot] =
                      [IdleHandler EXCEPT
                         !.pc = IF /\ ParseOutcome(Head(inbox).msg) = "ticker"
                                   /\ Eligible(Head(inbox).msg.s, SNIPE_LIST, active_orders)
                                   /\ TradingStarted(Head(inbox).msg.c)
                                THEN "mark" ELSE "ret",
                         !.msg = Head(inbox).msg,
                         !.late = Head(inbox).late]]
    /\ inbox' = Tail(inbox)
    /\ UNCHANGED << API_KEY, SECRET_KEY, SNIPE_LIST, active_orders, ws_connected,
                    file, mainPc, heartbeat_count, feedPc, subscription,
                    calls, watch0, waited >>

\* on_message lines 116-119: the mark, then the amount lookup (a KeyError
\* there leaves through the except clause at line 132)
Mark(t) ==
    /\ handlers[t].pc = "mark"
    /\ active_orders' = MarkExecuting(active_orders, handlers[t].msg.s)
    /\ handlers' = [handlers EXCEPT ![t] =
                      IF handlers[t].msg.s \in DOMAIN SNIPE_LIST
                      THEN [@ EXCEPT !.pc = "call", !.amount = SNIPE_LIST[handlers[t].msg.s]]
                      ELSE [@ EXCEPT !.pc = "ret"]]
    /\ UNCHANGED << API_KEY, SECRET_KEY, SNIPE_LIST, ws_connected, file, mainPc,
                    heartbeat_count, feedPc, inbox, subscription, calls, watch0,
                    waited >>

\* on_message line 120 -> place_market_order lines 56-81: the request is sent
Place(t) ==
    /\ handlers[t].pc = "call"
    /\ calls[handlers[t].msg.s] < MaxCalls
    /\ calls' = [calls EXCEPT ![handlers[t].msg.s] = @ + 1]
    /\ handlers' = [handlers EXCEPT ![t].pc = "wait"]
    /\ UNCHANGED << API_KEY, SECRET_KEY, SNIPE_LIST, active_orders, ws_connected,
                    file, mainPc, heartbeat_count, feedPc, inbox, subscription,
                    watch0, waited >>

\* place_market_order lines 81-93 return, then on_message lines 122-130
OrderReturns(t) ==
    /\ handlers[t].pc = "wait"
    /\ \E resp \in Responses, w \in WriteOutcomes :
         LET out == OrderOutcome(place_market_order(resp), handlers[t].msg.s,
                                 SNIPE_LIST, active_orders)
         IN /\ ~out.save => w = "ok"
            /\ active_orders' = out.orders
            /\ SNIPE_LIST' = IF out.save THEN ListAfterSave(w, SNIPE_LIST, out.list)
                                        ELSE out.list
            /\ file' = IF out.save THEN save_snipe_list(w, out.list, file) ELSE file
            /\ handlers' = [handlers EXCEPT ![t] =
                              [@ EXCEPT !.pc = "ret",
                                        !.resp = resp,
                                        !.posts = RequestsSent(resp),
                                        !.ok = place_market_order(resp),
                                        !.saved = IF out.save THEN w ELSE "none"]]
    /\ UNCHANGED << API_KEY, SECRET_KEY, ws_connected, mainPc, heartbeat_count,
                    feedPc, inbox, subscription, calls, watch0, waited >>

\* on_message returns to the read loop of ws.run_forever
Return(t) ==
    /\ handlers[t].pc = "ret"
    /\ handlers' = [handlers EXCEPT ![t] = IdleHandler]
    /\ UNCHANGED << API_KEY, SECRET_KEY, SNIPE_LIST, active_orders, ws_connected,
                    file, mainPc, heartbeat_count, feedPc, inbox, subscription,
                    calls, watch0, waited >>

OnMessage == \E t \in Slots : Mark(t) \/ Place(t) \/ OrderReturns(t) \/ Return(t)

(* ------------------------------ specification -------------------------- *)
Next ==
    \/ CheckKeys
    \/ LoadSnipeList
    \/ StartWebsocket
    \/ Heartbeat
    \/ LoopTop
    \/ OnOpen
    \/ RunForeverEnds
    \/ Backoff
    \/ Arrive
    \/ Dispatch
    \/ OnMessage

Spec == Init /\ [][Next]_vars

\* the thread scheduler runs the feed thread: the loop top and the end of
\* the sleep are steps of that thread alone
LiveSpec == Spec /\ WF_vars(LoopTop) /\ WF_vars(Backoff)

\* the thread scheduler runs the main thread; nothing is assumed of the feed
\* thread, which may stay in an order call, in the backoff or in a
\* connection attempt for ever
BeatSpec == Spec /\ WF_vars(Heartbeat)

(* ------------------------------ properties ----------------------------- *)
\* handler t holds a ticker event for symbol S
Handles(t, S) ==
    /\ handlers[t].pc # "idle"
    /\ handlers[t].msg.kind = "ticker"
    /\ handlers[t].msg.s = S

\* handler t is about to return from a strictly-positive ticker event for S
ReturnsPositive(t, S) ==
    /\ Handles(t, S)
    /\ handlers[t].pc = "ret"
    /\ PositivePrice(handlers[t].msg.c)

\* handlers that passed the eligibility check for S and have not yet sent
\* the order
Committed(S) == { t \in Slots : Handles(t, S) /\ handlers[t].pc \in {"mark", "call"} }

\* C1: for every symbol of the loaded watch list, place_market_order is
\* never invoked twice, and once a handler has processed a strictly-positive
\* ticker event for it the order has been invoked exactly once
C1_ExactlyOnce ==
    \A S \in Symbols :
      /\ calls[S] <= 1
      /\ \A t \in Slots : (ReturnsPositive(t, S) /\ S \in watch0) => calls[S] = 1

\* a repeated positive event for S has been handled without a second order
C1_Witness ==
    \E S \in Symbols, t \in Slots :
      /\ ReturnsPositive(t, S)
      /\ S \in watch0
      /\ handlers[t].amount = 0
      /\ calls[S] = 1

C3_NonPositiveIgnored ==
    [][ \A S \in Symbols, t \in Slots :
          (Handles(t, S) /\ ~PositivePrice(handlers[t].msg.c))
            => /\ UNCHANGED << active_orders, calls, SNIPE_LIST, file >>
               /\ handlers[t].pc = "ret"
               /\ handlers'[t].pc \in {"ret", "idle"} ]_vars

\* a zero-price event for a watched symbol has been handled and the symbol
\* is still Watching
C3_Witness ==
    \E S \in Symbols, t \in Slots :
      /\ Handles(t, S)
      /\ handlers[t].pc = "ret"
      /\ handlers[t].msg.c = "0.0"
      /\ S \in DOMAIN SNIPE_LIST
      /\ active_orders[S] = "none"
      /\ calls[S] = 0

C5_CompletedIsFinal ==
    [][ /\ \A t \in Slots :
             (handlers[t].pc = "wait" /\ handlers'[t].pc = "ret" /\ handlers'[t].ok)
               => /\ active_orders'[handlers[t].msg.s] = "completed"
                  /\ handlers[t].msg.s \notin DOMAIN SNIPE_LIST'
        /\ \A S \in Symbols :
             active_orders[S] = "completed"
               => /\ S \notin DOMAIN SNIPE_LIST
                  /\ active_orders'[S] = "completed"
                  /\ S \notin DOMAIN SNIPE_LIST'
                  /\ calls'[S] = calls[S]
                  /\ \A t \in Slots :
                       Handles(t, S)
                         => UNCHANGED << active_orders, SNIPE_LIST, calls, file >> ]_vars

\* a positive event for a Completed symbol has been handled
C5_Witness ==
    \E S \in Symbols, t \in Slots :
      /\ active_orders[S] = "completed"
      /\ ReturnsPositive(t, S)
      /\ handlers[t].amount = 0
      /\ calls[S] = 1

\* C6 as stated: when the handler that placed a successful order returns,
\* the file holds the in-memory mapping, without S
C6_FileFollowsMemory ==
    \A t \in Slots :
      (handlers[t].pc = "ret" /\ handlers[t].ok)
        => /\ file = FileJson(SNIPE_LIST)
           /\ handlers[t].msg.s \notin DOMAIN file.map

\* C6: when the handler that placed a successful order returns, S is out of
\* the in-memory mapping; if the write succeeded the file holds that mapping,
\* without S; if the file could not be opened it is what it was before; if
\* the write broke off after the truncating open the file is unreadable
C6_FileFollowsMemoryWhenWritten ==
    /\ [] (\A t \in Slots :
             (handlers[t].pc = "ret" /\ handlers[t].ok)
               => /\ handlers[t].msg.s \notin DOMAIN SNIPE_LIST
                  /\ handlers[t].saved = "ok"
                       => (file = FileJson(SNIPE_LIST) /\ handlers[t].msg.s \notin DOMAIN file.map)
                  /\ handlers[t].saved = "partial" => file = FileCorrupt)
    /\ [][ \A t \in Slots :
             (handlers[t].pc = "wait" /\ handlers'[t].pc = "ret" /\ handlers'[t].ok
                /\ handlers'[t].saved = "openfail")
               => file' = file ]_vars

\* the handler of a successful order is about to return after a good write
C6_Witness ==
    \E t \in Slots :
      /\ handlers[t].pc = "ret"
      /\ handlers[t].ok
      /\ handlers[t].saved = "ok"
      /\ file = FileJson(SNIPE_LIST)
      /\ SNIPE_LIST # EmptyMap

\* C7: whenever the reconnect loop is back at its top after ws.run_forever
\* ended, the 10-second backoff has been waited
C7_BackoffBeforeReconnect == (feedPc = "loop") => waited

\* C8: once started, the feed thread never ends and the process stays up,
\* and whenever the loop is disconnected (at its top or in the backoff) a
\* new connection attempt follows
C8_ReconnectsForever ==
    /\ [] (feedPc # "dead")
    /\ [] (feedPc # "none" => mainPc = "beat")
    /\ (feedPc \in {"loop", "sleep"}) ~> (feedPc = "run")

\* a new connection attempt is under way after an order failed
C8_Witness ==
    /\ feedPc = "run"
    /\ \E S \in Symbols : active_orders[S] = "failed"

\* an environment value that is not set
Absent(v) == v = "<unset>"

\* C9: with either secret absent nothing is started: main is at its check or
\* has ended, the watch list is not loaded, the file is not touched, the feed
\* thread does not exist, no heartbeat is counted and no order is sent
C9_NoStartWithoutSecrets ==
    /\ [] ((Absent(API_KEY) \/ Absent(SECRET_KEY))
             => /\ mainPc \in {"check", "exit"}
                /\ SNIPE_LIST = EmptyMap
                /\ watch0 = {}
                /\ feedPc = "none"
                /\ ~ws_connected
                /\ heartbeat_count = 0
                /\ \A S \in Symbols : calls[S] = 0 /\ active_orders[S] = "none")
    /\ [][ (Absent(API_KEY) \/ Absent(SECRET_KEY)) => file' = file ]_vars

\* main has ended with exactly one of the two secrets absent
C9_Witness ==
    /\ mainPc = "exit"
    /\ Absent(API_KEY) # Absent(SECRET_KEY)

\* the steps a SymbolState may take
MonotonicStep(a, b) ==
    \/ a = b
    \/ a = "none" /\ b = "executing"
    \/ a = "executing" /\ b \in {"completed", "failed"}

\* C10: a SymbolState only moves Watching -> Executing -> Completed/Failed,
\* and a handler never returns leaving its symbol Executing: between handler
\* invocations no symbol is Executing
C10_Monotonic ==
    /\ [][ \A S \in Symbols : MonotonicStep(active_orders[S], active_orders'[S]) ]_vars
    /\ [] (\A S \in Symbols, t \in Slots :
             (Handles(t, S) /\ handlers[t].pc = "ret") => active_orders[S] # "executing")
    /\ [] (AllIdle => \A S \in Symbols : active_orders[S] # "executing")

\* one symbol ended Completed and the other Failed
C10_Witness ==
    /\ AllIdle
    /\ \E S \in Symbols, T \in Symbols :
         active_orders[S] = "completed" /\ active_orders[T] = "failed"


\* handler t has an order call outstanding or is about to make it
Calling(t) == handlers[t].pc \in {"call", "wait"}

\* C11: whenever place_market_order is about to be invoked or is outstanding
\* for S, S is recorded as Executing, so the test of line 108 fails for S for
\* the whole duration of the call
C11_ClaimPrecedesCall ==
    \A t \in Slots :
      Calling(t)
        => /\ active_orders[handlers[t].msg.s] = "executing"
           /\ ~Eligible(handlers[t].msg.s, SNIPE_LIST, active_orders)

\* the order call for S is outstanding and a positive event for S is waiting
\* in the transport
C11_Witness ==
    \E t \in Slots :
      /\ handlers[t].pc = "wait"
      /\ active_orders[handlers[t].msg.s] = "executing"
      /\ inbox # << >>
      /\ Head(inbox).msg.kind = "ticker"
      /\ Head(inbox).msg.s = handlers[t].msg.s
      /\ PositivePrice(Head(inbox).msg.c)

\* C12: an order call is only made for a key of SNIPE_LIST and with that
\* key's amount; a symbol that was never in the watch list gets no order and
\* no SymbolState, and a handler holding an event for it only returns
C12_TrackedSymbolAndAmount ==
    /\ [] (\A t \in Slots :
             Calling(t)
               => /\ handlers[t].msg.s \in DOMAIN SNIPE_LIST
                  /\ handlers[t].msg.s \in watch0
                  /\ handlers[t].amount = SNIPE_LIST[handlers[t].msg.s])
    /\ [] (\A S \in Symbols :
             (mainPc \in {"start", "beat"} /\ S \notin watch0)
               => /\ calls[S] = 0
                  /\ active_orders[S] = "none"
                  /\ \A t \in Slots : Handles(t, S) => handlers[t].pc = "ret")

\* the order for ABCUSDT is outstanding with the 5 USDT of its entry
C12_Witness ==
    \E t \in Slots :
      /\ handlers[t].pc = "wait"
      /\ handlers[t].msg.s = "ABCUSDT"
      /\ handlers[t].amount = 5
      /\ calls["ABCUSDT"] = 1

\* handler t gets the answer of a successful order for S in this step
Succeeds(t, S) ==
    /\ handlers[t].pc = "wait"
    /\ handlers[t].msg.s = S
    /\ handlers'[t].pc = "ret"
    /\ handlers'[t].ok

\* C13: once loaded, SNIPE_LIST only shrinks: no key is added, no amount
\* changes, and a key leaves only in the step in which the order for that
\* very symbol succeeded
C13_WatchListOnlyShrinks ==
    [][ (mainPc = "start" \/ mainPc = "beat")
          => /\ \A S \in DOMAIN SNIPE_LIST' :
                  S \in DOMAIN SNIPE_LIST /\ SNIPE_LIST'[S] = SNIPE_LIST[S]
             /\ \A S \in (DOMAIN SNIPE_LIST) \ (DOMAIN SNIPE_LIST') :
                  \E t \in Slots : Succeeds(t, S) ]_vars

\* one entry has been removed and the other is still there with its amount
C13_Witness ==
    /\ "NSGUSDT" \in watch0
    /\ "NSGUSDT" \notin DOMAIN SNIPE_LIST
    /\ "ABCUSDT" \in DOMAIN SNIPE_LIST
    /\ SNIPE_LIST["ABCUSDT"] = 5
    /\ AllIdle

\* the stream name the exchange expects for a symbol
TickerStream(S) ==
    << (CASE S = "NSGUSDT" -> "nsgusdt" [] S = "ABCUSDT" -> "abcusdt"), "@24hrTicker" >>

\* C14: the step that opens the transport sends one SUBSCRIPTION frame naming
\* the ticker stream of every key SNIPE_LIST has at that moment, or no frame
\* when SNIPE_LIST is empty, and leaves the connection open; nothing more is
\* sent while the connection lasts
C14_SubscribesCurrentList ==
    [][ /\ (feedPc = "run" /\ feedPc' = "open")
            => subscription' =
                 IF DOMAIN SNIPE_LIST = {} THEN << >>
                 ELSE << { TickerStream(S) : S \in DOMAIN SNIPE_LIST } >>
        /\ (feedPc = "open" /\ feedPc' = "open") => subscription' = subscription ]_vars

\* a reconnect after NSGUSDT completed and ABCUSDT failed subscribed to
\* ABCUSDT alone
C14_Witness ==
    /\ feedPc = "open"
    /\ active_orders["NSGUSDT"] = "completed"
    /\ active_orders["ABCUSDT"] = "failed"
    /\ subscription = << { TickerStream("ABCUSDT") } >>

\* a frame on_message cannot use: not JSON, not a ticker stream, no data
\* object, no symbol, or a price that is not a number
Malformed(m) ==
    \/ m.kind \in {"notjson", "other", "nodata", "nosym"}
    \/ m.kind = "ticker" /\ m.c = "abc"

\* C15: while a handler holds a malformed frame, no order is sent, SNIPE_LIST,
\* the SymbolStates and the file stay as they are, the connection stays open
\* with its subscription, and the handler's only move is its normal return
C15_MalformedDiscarded ==
    [][ \A t \in Slots :
          (handlers[t].pc # "idle" /\ Malformed(handlers[t].msg))
            => /\ UNCHANGED << active_orders, calls, SNIPE_LIST, file, feedPc,
                               ws_connected, subscription >>
               /\ feedPc = "open"
               /\ handlers[t].pc = "ret"
               /\ handlers'[t].pc \in {"ret", "idle"} ]_vars

\* a frame with a non-numeric price for a Watching symbol has been handled
\* and the next frame, a well-formed one for that symbol, is waiting
C15_Witness ==
    \E t \in Slots :
      /\ handlers[t].pc = "ret"
      /\ handlers[t].msg.kind = "ticker"
      /\ handlers[t].msg.c = "abc"
      /\ handlers[t].msg.s \in DOMAIN SNIPE_LIST
      /\ active_orders[handlers[t].msg.s] = "none"
      /\ inbox # << >>
      /\ Head(inbox).msg = [kind |-> "ticker", s |-> handlers[t].msg.s, c |-> "0.05"]


\* handler t is about to return after its order call was answered
Answered(t) == handlers[t].pc = "ret" /\ handlers[t].resp # "none"

\* C16: an invocation of place_market_order sends one request, returns True
\* exactly when the answer carries an order id, and returns False for an
\* error payload, a body that is no dict or no JSON, a network error and a
\* timeout; in every case on_message goes on to record the outcome and
\* returns, and the order is not sent again
C16_GatewayResult ==
    \A t \in Slots :
      Answered(t)
        => /\ handlers[t].ok <=> (handlers[t].resp = "orderId")
           /\ handlers[t].posts = 1
           /\ calls[handlers[t].msg.s] = 1
           /\ active_orders[handlers[t].msg.s] =
                IF handlers[t].resp = "orderId" THEN "completed" ELSE "failed"

\* an order call that timed out has returned False
C16_Witness ==
    \E t \in Slots :
      /\ Answered(t)
      /\ handlers[t].resp = "timeout"
      /\ ~handlers[t].ok
      /\ active_orders[handlers[t].msg.s] = "failed"

\* C17: when the file write after a successful order fails, S is still out
\* of SNIPE_LIST and Completed with its one order, the handler is at its
\* normal return with the connection open, and a Completed symbol never gets
\* a second order
C17_SaveFailureNotFatal ==
    /\ \A t \in Slots :
         (handlers[t].pc = "ret" /\ handlers[t].ok
            /\ handlers[t].saved \in {"openfail", "partial"})
           => /\ handlers[t].msg.s \notin DOMAIN SNIPE_LIST
              /\ active_orders[handlers[t].msg.s] = "completed"
              /\ calls[handlers[t].msg.s] = 1
              /\ feedPc = "open"
    /\ \A S \in Symbols :
         active_orders[S] = "completed"
           => calls[S] = 1 /\ S \notin DOMAIN SNIPE_LIST

\* the file still lists a Completed symbol because its write failed, and the
\* order of the other symbol is under way
C17_Witness ==
    \E S \in Symbols, t \in Slots :
      /\ active_orders[S] = "completed"
      /\ file.kind = "json"
      /\ S \in DOMAIN file.map
      /\ S \notin DOMAIN SNIPE_LIST
      /\ handlers[t].pc = "wait"
      /\ handlers[t].msg.s # S

\* C18: whatever the feed thread is doing, the heartbeat loop can take its
\* next step; with the main thread scheduled and nothing assumed of the feed
\* thread, the heartbeat loop is again and again at a count of MaxHeartbeat
\* (the count never falls, so it reaches every value up to it); and a
\* heartbeat step writes neither SNIPE_LIST nor a SymbolState nor the file
C18_HeartbeatIndependent ==
    /\ [] ((mainPc = "beat" /\ heartbeat_count < MaxHeartbeat) => ENABLED Heartbeat)
    /\ []<>(mainPc = "beat" => heartbeat_count = MaxHeartbeat)
    /\ [][ heartbeat_count' # heartbeat_count
             => UNCHANGED << SNIPE_LIST, active_orders, file, calls, feedPc, handlers >> ]_vars

\* the heartbeats have been counted while an order call is outstanding
C18_Witness ==
    /\ heartbeat_count = MaxHeartbeat
    /\ \E t \in Slots : handlers[t].pc = "wait"

\* C19: between handler invocations a symbol is Completed only if it is out
\* of SNIPE_LIST, Failed only if it is in it, never Executing, and it has a
\* recorded state exactly when place_market_order was invoked for it
C19_StateAgreesWithList ==
    AllIdle =>
      \A S \in Symbols :
        /\ active_orders[S] = "completed" => S \notin DOMAIN SNIPE_LIST
        /\ active_orders[S] = "failed" => S \in DOMAIN SNIPE_LIST
        /\ active_orders[S] # "executing"
        /\ (active_orders[S] # "none") <=> (calls[S] >= 1)

\* between two handler invocations one symbol is Completed and out of the
\* list, the other Failed and in it
C19_Witness ==
    /\ AllIdle
    /\ feedPc = "open"
    /\ \E S \in Symbols, T \in Symbols :
         /\ active_orders[S] = "completed" /\ S \notin DOMAIN SNIPE_LIST
         /\ active_orders[T] = "failed" /\ T \in DOMAIN SNIPE_LIST
         /\ calls[S] = 1 /\ calls[T] = 1

\* C20: while a handler holds an event for S, the SymbolState, the order
\* count and the watch-list entry of every other symbol T stay as they are,
\* and a file it writes keeps T's entry; and a positive event for a watched T
\* handled after another symbol Completed or Failed gets T its one order
C20_SymbolsIndependent ==
    /\ [][ \A S \in Symbols, T \in Symbols, t \in Slots :
             (Handles(t, S) /\ T # S)
               => /\ active_orders'[T] = active_orders[T]
                  /\ calls'[T] = calls[T]
                  /\ (T \in DOMAIN SNIPE_LIST') <=> (T \in DOMAIN SNIPE_LIST)
                  /\ T \in DOMAIN SNIPE_LIST => SNIPE_LIST'[T] = SNIPE_LIST[T]
                  /\ (file' # file /\ file'.kind = "json" /\ T \in DOMAIN SNIPE_LIST)
                       => (T \in DOMAIN file'.map /\ file'.map[T] = SNIPE_LIST[T]) ]_vars
    /\ [] (\A S \in Symbols, T \in Symbols, t \in Slots :
             (ReturnsPositive(t, T) /\ T \in watch0 /\ T # S
                /\ active_orders[S] \in {"completed", "failed"})
               => (calls[T] = 1 /\ active_orders[T] \in {"completed", "failed"}))

\* the handler that placed T's order returns after another symbol had
\* already Completed or Failed
C20_Witness ==
    \E S \in Symbols, T \in Symbols, t \in Slots :
      /\ T # S
      /\ ReturnsPositive(t, T)
      /\ Answered(t)
      /\ active_orders[S] \in {"completed", "failed"}
      /\ calls[T] = 1

====
